---- MODULE Spec2Model ----
(***************************************************************************)
(* Model of the DOU gazette robot (src/src/main.py and the modules it      *)
(* superseded).  Strings are sequences of one-character (or one-word)     *)
(* tokens, so that substring tests, regular-expression matches and        *)
(* normalisations are computed and not assumed.                            *)
(*                                                                         *)
(* A URL is the sequence "https:", "/", "/", host, then its path.           *)
(***************************************************************************)
EXTENDS Naturals, Integers, Sequences, FiniteSets, TLC

VARIABLES
    file,       \* state/seen.json on disk: [kind, keys]
    cfg,        \* config.yml + environment, as run() reads it
    hits,       \* what the portal lists for each (phrase, section) query
    down,       \* per URL: does its page load fail ("?" = not fetched yet)
    pc,         \* position of run(): "idle", "enrich", "deliver", "done", "aborted"
    runNo,      \* number of runs started
    seen,       \* the in-memory set `seen` of run()
    loaded,     \* what load_seen() returned at the start of the current run
    listing,    \* the list returned by query_dou
    idx,        \* index of the next item of `listing` to enrich
    launched,   \* a browser was launched (p.chromium.launch) in the current run
    enriched,   \* what the enrichment loop produced so far in the current run
    relevant,   \* the list `relevant` of run()
    handed,     \* the items passed to send_email in the current run
    mail,       \* outcome of send_email in the current run
    saved,      \* TRUE when save_seen ran in the current run
    committed,  \* TRUE once an earlier run handed off its digest and saved
    unsent,     \* history: the latest run whose send_email raised, [run, docs]
    inp,        \* the argument of the function under study
    out,        \* its result
    fpc         \* "ready" before the call, then the name of what was called

runVars == <<file, cfg, hits, down, pc, runNo, seen, loaded, listing, idx,
             launched, enriched, relevant, handed, mail, saved, committed,
             unsent>>

funVars == <<inp, out, fpc>>

vars == <<runVars, funVars>>

-----------------------------------------------------------------------------
(* Bounds of the model *)

MaxRuns == 2
MaxHits == 1

-----------------------------------------------------------------------------
(* Text helpers *)

\* Python's `needle in hay` on strings.
Contains(hay, needle) ==
    \E i \in 0..(Len(hay) - Len(needle)) :
        SubSeq(hay, i + 1, i + Len(needle)) = needle

Digits == {"0", "1", "2", "3", "4", "5", "6", "7", "8", "9"}

IsDigits(s, a, b) == \A p \in a..b : s[p] \in Digits

-----------------------------------------------------------------------------
(* extract_materia_id: re.search(r"/-(?:[^/]+/)*(\d{6,})/?$", url)         *)

MinIdDigits == 6

\* s[a..j-1] is zero or more repetitions of [^/]+/
SegmentsOk(s, a, j) ==
    \/ a = j
    \/ /\ a < j
       /\ s[a] # "/"
       /\ s[j - 1] = "/"
       /\ \A p \in a..(j - 2) : ~(s[p] = "/" /\ s[p + 1] = "/")

\* s[j..e] is (\d{6,}) and what follows it is /?$
DigitsTail(s, j, e) ==
    /\ e - j + 1 >= MinIdDigits
    /\ IsDigits(s, j, e)
    /\ \/ e = Len(s)
       \/ e = Len(s) - 1 /\ s[Len(s)] = "/"

\* the matches of the pattern, as <<start of "/-", start of group 1, end of group 1>>
IdMatches(s) ==
    { m \in (1..Len(s)) \X (1..Len(s)) \X {Len(s) - 1, Len(s)} :
        /\ m[1] + 1 <= Len(s)
        /\ s[m[1]] = "/"
        /\ s[m[1] + 1] = "-"
        /\ m[2] >= m[1] + 2
        /\ m[3] >= m[2]
        /\ SegmentsOk(s, m[1] + 2, m[2])
        /\ DigitsTail(s, m[2], m[3]) }

NoId == <<>>

\* re.search takes the leftmost start; the greedy quantifiers then take the
\* longest run of segments and of digits.
extract_materia_id(url) ==
    LET ms == IdMatches(url) IN
    IF ms = {} THEN NoId
    ELSE LET m == CHOOSE x \in ms :
                    \A y \in ms :
                        \/ x[1] < y[1]
                        \/ x[1] = y[1] /\ x[2] > y[2]
                        \/ x[1] = y[1] /\ x[2] = y[2] /\ x[3] >= y[3]
         IN SubSeq(url, m[2], m[3])

\* build_seen_keys: ("url:<url>", "id:<id>" or None)
NoKey == <<>>

build_seen_keys(url) ==
    LET mid == extract_materia_id(url) IN
    [ url_key |-> <<"url:">> \o url,
      id_key  |-> IF mid # NoId THEN <<"id:">> \o mid ELSE NoKey ]

-----------------------------------------------------------------------------
(* normalize: unidecode(txt).lower(), whitespace collapsed, stripped       *)

\* the letters of the model; "a~" and "A~" stand for a-tilde, "ordm" for the
\* masculine ordinal indicator and "deg" for the degree sign
UpperLetters ==
    <<"A", "B", "C", "D", "E", "F", "G", "H", "I", "J", "K", "L", "M",
      "N", "O", "P", "Q", "R", "S", "T", "U", "V", "W", "X", "Y", "Z", "A~">>

LowerLetters ==
    <<"a", "b", "c", "d", "e", "f", "g", "h", "i", "j", "k", "l", "m",
      "n", "o", "p", "q", "r", "s", "t", "u", "v", "w", "x", "y", "z", "a~">>

LetterIndex(letters, c) ==
    IF \E i \in 1..Len(letters) : letters[i] = c
    THEN CHOOSE i \in 1..Len(letters) : letters[i] = c
    ELSE 0

\* str.lower(), character by character
LowerChar(c) ==
    IF LetterIndex(UpperLetters, c) # 0
    THEN LowerLetters[LetterIndex(UpperLetters, c)] ELSE c

RECURSIVE Lower(_)
Lower(s) == IF s = <<>> THEN <<>> ELSE <<LowerChar(Head(s))>> \o Lower(Tail(s))

\* str.upper(), character by character
UpperChar(c) ==
    IF LetterIndex(LowerLetters, c) # 0
    THEN UpperLetters[LetterIndex(LowerLetters, c)] ELSE c

RECURSIVE Upper(_)
Upper(s) == IF s = <<>> THEN <<>> ELSE <<UpperChar(Head(s))>> \o Upper(Tail(s))

\* unidecode: the ASCII transliteration of each character
UnidecodeChar(c) ==
    CASE c = "a~"   -> <<"a">>
      [] c = "A~"   -> <<"A">>
      [] c = "ordm" -> <<"o">>
      [] c = "deg"  -> <<"d", "e", "g">>
      [] OTHER      -> <<c>>

RECURSIVE unidecode(_)
unidecode(s) ==
    IF s = <<>> THEN <<>> ELSE UnidecodeChar(s[1]) \o unidecode(Tail(s))

IsSpace(c) == c \in {" ", "\t", "\n"}

\* re.sub(r"\s+", " ", s)
RECURSIVE CollapseSpaces(_)
CollapseSpaces(s) ==
    IF s = <<>> THEN <<>>
    ELSE IF IsSpace(s[1])
         THEN IF Len(s) > 1 /\ IsSpace(s[2])
              THEN CollapseSpaces(Tail(s))
              ELSE <<" ">> \o CollapseSpaces(Tail(s))
         ELSE <<s[1]>> \o CollapseSpaces(Tail(s))

\* str.strip()
RECURSIVE Strip(_)
Strip(s) ==
    IF s = <<>> THEN <<>>
    ELSE IF IsSpace(s[1]) THEN Strip(Tail(s))
    ELSE IF IsSpace(s[Len(s)]) THEN Strip(SubSeq(s, 1, Len(s) - 1))
    ELSE s

normalize(txt) ==
    IF txt = <<>> THEN <<>>
    ELSE Strip(CollapseSpaces(Lower(unidecode(txt))))

-----------------------------------------------------------------------------
(* The portal as the robot sees it                                         *)

WebDou  == <<"/", "web", "/", "dou", "/", "-", "/">>
Materia == <<"/", "materia", "/", "-", "/">>
ID1     == <<"1", "1", "1", "1", "1", "1">>

Host    == <<"https:", "/", "/", "www.in.gov.br">>

M1 == Host \o WebDou \o <<"a">>                    \* a document page, no numeric id
M2 == Host \o WebDou \o <<"-", "x", "/">> \o ID1   \* a document page with id 111111
M3 == Host \o Materia \o <<"-", "y", "/">> \o ID1  \* the same document at another URL
P1 == Host \o <<"/", "p">>                         \* a landing page that links to M2

URLs == {M1, M2, M3, P1}

TA == <<"A">>
TB == <<"B">>
SemTitulo == <<"(sem titulo)">>

Ref(u, t) == [url |-> u, titulo |-> t]

\* the candidate references the listing pages may show
Refs == {Ref(M1, TA), Ref(M2, TA), Ref(M2, TB), Ref(M3, TB), Ref(P1, TA)}

Queries == {"q1", "q2"}

\* dates as the robot compares them: the current edition and an older one
Today == "D2"
Older == "D1"

NoOrg  == <<>>
None   == <<>>
OrgRFB == <<"R", "F", "B">>
OrgMEC == <<"M", "E", "C">>

\* what the page of a URL holds once loaded: the first document link on it
\* (for resolve_to_materia) and the metadata enrich_listing_item parses
PageOf(u) ==
    CASE u = M1 -> [link |-> <<>>, orgao |-> OrgRFB, data |-> Today,
                    tipo |-> <<"PORTARIA">>, numero |-> <<"1">>,
                    texto |-> <<"t">>]
      [] u = M2 -> [link |-> <<>>, orgao |-> OrgMEC, data |-> Older,
                    tipo |-> <<"DECRETO">>, numero |-> None,
                    texto |-> <<"t">>]
      [] u = M3 -> [link |-> <<>>, orgao |-> OrgMEC, data |-> Older,
                    tipo |-> <<"DECRETO">>, numero |-> None,
                    texto |-> <<"t">>]
      [] OTHER  -> [link |-> M2, orgao |-> NoOrg, data |-> "",
                    tipo |-> None, numero |-> None, texto |-> <<>>]

-----------------------------------------------------------------------------
(* State file                                                              *)

\* json.load fails (missing handled apart): truncated or invalid JSON, or
\* the file cannot be read.  "object" and "string" are valid JSON that is
\* not an array; `keys` is then what iterating the value yields.
File(k, ks) == [kind |-> k, keys |-> ks]

UrlKey(u) == <<"url:">> \o u
IdKey(n)  == <<"id:">> \o n

\* a faulty load_seen: the stored keys are not read back
load_seen_forgets(f) == {}

\* main.py load_seen
load_seen(f) ==
    IF f.kind = "array" THEN f.keys ELSE {}

\* main.py save_seen: the file becomes the JSON array sorted(seen)
save_seen(s) == File("array", s)

-----------------------------------------------------------------------------
(* Pure helpers of run()                                                   *)

\* a faulty filter: a document without organization is dropped
orgao_allowed_strict(orgao, kws) ==
    IF kws = {} THEN TRUE
    ELSE \E kw \in kws : kw # <<>> /\ normalize(orgao) # <<>>
                          /\ Contains(normalize(orgao), normalize(kw))

\* main.py orgao_allowed
orgao_allowed(orgao, kws) ==
    IF kws = {} THEN TRUE
    ELSE LET o == normalize(orgao) IN
         IF o = <<>> THEN TRUE
         ELSE \E kw \in kws : kw # <<>> /\ Contains(o, normalize(kw))

\* main.py resolve_to_materia: a document URL is kept; any other page is
\* opened (`up` says whether the load worked) and its first document link,
\* when there is one, is followed
is_materia_url(url) == Contains(url, WebDou) \/ Contains(url, Materia)

resolve_to_materia(url, up) ==
    IF is_materia_url(url) THEN url
    ELSE IF ~up THEN url
    ELSE IF PageOf(url).link # <<>> THEN PageOf(url).link
    ELSE url

\* datetime.now().strftime("%d/%m/%Y")
NowLocal == Today

OrSemTitulo(t) == IF t = <<>> THEN SemTitulo ELSE t

\* main.py enrich_listing_item, after resolve_to_materia gave final_url;
\* `up` says whether page.goto(final_url) worked
\* a faulty enricher: a failed load leaves the document without a date
enrich_listing_item_undated(item, final_url, up) ==
    IF ~up
    THEN [url |-> final_url, titulo |-> OrSemTitulo(item.titulo),
          orgao |-> NoOrg, tipo |-> None, numero |-> None,
          data |-> "", texto_bruto |-> <<>>]
    ELSE [url |-> final_url, titulo |-> OrSemTitulo(item.titulo),
          orgao |-> PageOf(final_url).orgao,
          tipo |-> PageOf(final_url).tipo,
          numero |-> PageOf(final_url).numero,
          data |-> IF PageOf(final_url).data # ""
                   THEN PageOf(final_url).data ELSE NowLocal,
          texto_bruto |-> PageOf(final_url).texto]

enrich_listing_item(item, final_url, up) ==
    IF ~up
    THEN [url |-> final_url, titulo |-> OrSemTitulo(item.titulo),
          orgao |-> NoOrg, tipo |-> None, numero |-> None,
          data |-> NowLocal, texto_bruto |-> <<>>]
    ELSE [url |-> final_url, titulo |-> OrSemTitulo(item.titulo),
          orgao |-> PageOf(final_url).orgao,
          tipo |-> PageOf(final_url).tipo,
          numero |-> PageOf(final_url).numero,
          data |-> IF PageOf(final_url).data # ""
                   THEN PageOf(final_url).data ELSE NowLocal,
          texto_bruto |-> PageOf(final_url).texto]

\* run() with search.enrich_listing false
plain_item(item) ==
    [url |-> item.url, titulo |-> OrSemTitulo(item.titulo),
     orgao |-> NoOrg, tipo |-> None, numero |-> None,
     data |-> NowLocal, texto_bruto |-> <<>>]

\* a faulty seen test: the id: key is not consulted
already_seen_url_only(s, url) ==
    url \in s \/ build_seen_keys(url).url_key \in s

\* the test of run() that skips an item already in seen.json
already_seen(s, url) ==
    LET k == build_seen_keys(url) IN
    \/ url \in s
    \/ k.url_key \in s
    \/ (k.id_key # NoKey /\ k.id_key \in s)

\* a faulty update: only the id: key is recorded
keys_to_add_id_only(url) ==
    LET k == build_seen_keys(url) IN
    IF k.id_key # NoKey THEN {k.id_key} ELSE {}

\* the keys run() adds to `seen` for the items it sent
keys_to_add(url) ==
    LET k == build_seen_keys(url) IN
    {k.url_key} \cup (IF k.id_key # NoKey THEN {k.id_key} ELSE {})

\* main.py query_dou: all_results is a set of (url, titulo) tuples
query_dou(h) ==
    UNION { { <<it.url, it.titulo>> : it \in h[q] } : q \in DOMAIN h }

\* the list built from the set all_results, in any iteration order
ListingsOf(res) ==
    LET n == Cardinality(res) IN
    { [i \in 1..n |-> Ref(f[i][1], f[i][2])] :
        f \in { g \in [1..n -> res] : \A i, j \in 1..n : g[i] = g[j] => i = j } }

\* _parse_br_date, as an order on the dates of the model; an unparsable
\* date becomes 01/01/1970
DateRank(d) == CASE d = Today -> 2 [] d = Older -> 1 [] OTHER -> 0

\* the characters of the model in code point order; "(sem titulo)" is the
\* placeholder title, ordered by its first character
CodePoints ==
    <<"\t", "\n", " ", "(sem titulo)", ",", "-", ".", "/",
      "0", "1", "2", "3", "4", "5", "6", "7", "8", "9">>
    \o SubSeq(UpperLetters, 1, 26) \o <<"_">> \o SubSeq(LowerLetters, 1, 26)
    \o <<"deg", "ordm", "A~", "a~">>

CharRank == [c \in { CodePoints[i] : i \in 1..Len(CodePoints) } |->
                CHOOSE i \in 1..Len(CodePoints) : CodePoints[i] = c]

\* Python's < on strings
RECURSIVE StrLess(_, _)
StrLess(a, b) ==
    IF b = <<>> THEN FALSE
    ELSE IF a = <<>> THEN TRUE
    ELSE IF CharRank[a[1]] # CharRank[b[1]] THEN CharRank[a[1]] < CharRank[b[1]]
    ELSE StrLess(Tail(a), Tail(b))

\* a faulty key: the date alone
SortKeyLess_date_only(a, b) == DateRank(a.data) < DateRank(b.data)

\* the tuple run._sort_key compares: (date, title)
SortKeyLess(a, b) ==
    \/ DateRank(a.data) < DateRank(b.data)
    \/ DateRank(a.data) = DateRank(b.data) /\ StrLess(a.titulo, b.titulo)

\* list.sort(key=_sort_key, reverse=True): descending and stable
RECURSIVE InsertDesc(_, _)
InsertDesc(x, s) ==
    IF s = <<>> THEN <<x>>
    ELSE IF SortKeyLess(s[1], x) THEN <<x>> \o s
    ELSE <<s[1]>> \o InsertDesc(x, Tail(s))

RECURSIVE SortDesc(_)
SortDesc(s) ==
    IF s = <<>> THEN <<>>
    ELSE InsertDesc(s[Len(s)], SortDesc(SubSeq(s, 1, Len(s) - 1)))

\* a faulty run: the edition-date filter is skipped
apply_filters_any_date(rel, c) ==
    LET KeepOrg(r) == orgao_allowed(r.orgao, c.orgao_keywords)
        r2 == IF c.orgao_keywords # {} THEN SelectSeq(rel, KeepOrg) ELSE rel
    IN SortDesc(r2)

\* the two filters of run(): edition of the day, then organization
apply_filters(rel, c) ==
    LET KeepDay(r) == r.data = Today
        KeepOrg(r) == orgao_allowed(r.orgao, c.orgao_keywords)
        r1 == IF c.day THEN SelectSeq(rel, KeepDay) ELSE rel
        r2 == IF c.orgao_keywords # {} THEN SelectSeq(r1, KeepOrg) ELSE r1
    IN SortDesc(r2)

Range(s) == { s[i] : i \in 1..Len(s) }

-----------------------------------------------------------------------------
(* run(): one pipeline run, and the next ones after it                     *)

InitFiles ==
    { File("missing", {}), File("corrupt", {}), File("object", {UrlKey(M1)}),
      File("array", {}), File("array", {UrlKey(M2)}), File("array", {IdKey(ID1)}),
      File("array", {M1}) }

\* the items one query returns: collect_paginated_results keeps one item per URL
HitSets ==
    { h \in SUBSET Refs :
        /\ Cardinality(h) <= MaxHits
        /\ \A a, b \in h : a.url = b.url => a = b }

Configs ==
    [ phrases : BOOLEAN,                            \* search.phrases is not empty
      day : BOOLEAN,                                \* search.period is "today"
      orgao_keywords : {{}, {<<"r", "f", "b">>}},   \* filters.orgao_keywords
      enrich : BOOLEAN,                             \* search.enrich_listing
      mail_ok : BOOLEAN ]                           \* recipients and SMTP_* are set

test_item ==
    [url |-> Host, titulo |-> <<"A">>, orgao |-> NoOrg, tipo |-> <<"Aviso">>,
     numero |-> None, data |-> NowLocal, texto_bruto |-> <<>>]

Init ==
    /\ file \in InitFiles
    /\ cfg \in Configs
    /\ hits \in [Queries -> HitSets]
    /\ down = [u \in URLs |-> "?"]
    /\ pc = "idle"
    /\ runNo = 0
    /\ seen = {}
    /\ loaded = {}
    /\ listing = <<>>
    /\ idx = 1
    /\ launched = FALSE
    /\ enriched = <<>>
    /\ relevant = <<>>
    /\ handed = <<>>
    /\ mail = "none"
    /\ saved = FALSE
    /\ committed = FALSE
    /\ unsent = [run |-> 0, docs |-> <<>>]
    /\ inp = <<>>
    /\ out = <<>>
    /\ fpc = "ready"

\* send_email(items, cfg): returns without sending when the recipients or the
\* SMTP settings are missing, raises when the SMTP exchange fails
SendOutcomes(c) == IF c.mail_ok THEN {"sent", "raised"} ELSE {"skipped"}

\* run() up to the end of query_dou: load_config, load_seen, query_dou, and the
\* branch taken when the listing is empty (FORCE_TEST_EMAIL read there)
RunStart ==
    /\ pc \in {"idle", "done", "aborted"}
    /\ runNo < MaxRuns
    /\ runNo' = runNo + 1
    /\ committed' = (committed \/ (pc = "done" /\ saved))
    /\ seen' = load_seen(file)
    /\ loaded' = load_seen(file)
    /\ launched' = TRUE
    /\ listing' \in ListingsOf(IF cfg.phrases THEN query_dou(hits) ELSE {})
    /\ idx' = 1
    /\ enriched' = <<>>
    /\ relevant' = <<>>
    /\ saved' = FALSE
    /\ IF listing' # <<>>
       THEN /\ pc' = "enrich"
            /\ handed' = <<>>
            /\ mail' = "none"
       ELSE \E force \in BOOLEAN :
                IF force
                THEN /\ handed' = <<test_item>>
                     /\ \E o \in SendOutcomes(cfg) :
                            /\ mail' = o
                            /\ pc' = IF o = "raised" THEN "aborted" ELSE "done"
                ELSE /\ handed' = <<>>
                     /\ mail' = "none"
                     /\ pc' = "done"
    /\ UNCHANGED <<file, cfg, hits, down, unsent, funVars>>

\* what opening the page of URL u gives, as it does every time: "up", the
\* page loads and can be read; "down", page.goto raises; "broken", the page
\* loads but page.content() raises
PageOutcomes == {"up", "down", "broken"}

Fetch(d, u, b) == d[u] = "?" \/ d[u] = b
Fetched(d, u, b) == [d EXCEPT ![u] = b]

\* one iteration of the enrichment loop of run(); an exception raised by
\* enrich_listing_item is caught nowhere in run()
EnrichItem ==
    /\ pc = "enrich"
    /\ idx <= Len(listing)
    /\ LET it == listing[idx] IN
       \E o1, o2 \in PageOutcomes :
          LET needs1 == cfg.enrich /\ ~is_materia_url(it.url)
              d1     == IF needs1 THEN Fetched(down, it.url, o1) ELSE down
              final  == resolve_to_materia(it.url, o1 # "down")
              d2     == IF cfg.enrich THEN Fetched(d1, final, o2) ELSE d1
              v      == IF cfg.enrich
                        THEN enrich_listing_item(it, final, o2 # "down")
                        ELSE plain_item(it)
          IN /\ needs1 => Fetch(down, it.url, o1)
             /\ ~needs1 => o1 = "up"
             /\ cfg.enrich => Fetch(d1, final, o2)
             /\ ~cfg.enrich => o2 = "up"
             /\ down' = d2
             /\ IF cfg.enrich /\ o2 = "broken"
                THEN /\ pc' = "aborted"
                     /\ UNCHANGED <<idx, enriched, relevant>>
                ELSE /\ enriched' = Append(enriched, v)
                     /\ relevant' = IF already_seen(seen, v.url) THEN relevant
                                    ELSE Append(relevant, v)
                     /\ idx' = idx + 1
                     /\ pc' = IF idx = Len(listing) THEN "deliver" ELSE "enrich"
    /\ UNCHANGED <<file, cfg, hits, runNo, seen, loaded, listing, launched,
                   handed, mail, saved, committed, unsent, funVars>>

\* a faulty hand-off: the keys are added and saved before send_email is called
Deliver_saves_first ==
    /\ pc = "deliver"
    /\ LET rel == apply_filters(relevant, cfg) IN
       /\ relevant' = rel
       /\ IF rel = <<>>
          THEN /\ pc' = "done"
               /\ UNCHANGED <<file, seen, handed, mail, saved, unsent>>
          ELSE /\ handed' = rel
               /\ seen' = seen \cup UNION { keys_to_add(r.url) : r \in Range(rel) }
               /\ file' = save_seen(seen')
               /\ saved' = TRUE
               /\ \E o \in SendOutcomes(cfg) :
                    /\ mail' = o
                    /\ IF o = "raised"
                       THEN /\ pc' = "aborted"
                            /\ unsent' = [run |-> runNo, docs |-> rel]
                       ELSE /\ pc' = "done"
                            /\ UNCHANGED unsent
    /\ UNCHANGED <<cfg, hits, down, runNo, loaded, listing, idx, launched,
                   enriched, committed, funVars>>

\* the rest of run(): the filters, the sort, send_email, the update of `seen`
\* and save_seen
Deliver ==
    /\ pc = "deliver"
    /\ LET rel == apply_filters(relevant, cfg) IN
       /\ relevant' = rel
       /\ IF rel = <<>>
          THEN /\ pc' = "done"
               /\ UNCHANGED <<file, seen, handed, mail, saved, unsent>>
          ELSE /\ handed' = rel
               /\ \E o \in SendOutcomes(cfg) :
                    /\ mail' = o
                    /\ IF o = "raised"
                       THEN /\ pc' = "aborted"
                            /\ unsent' = [run |-> runNo, docs |-> rel]
                            /\ UNCHANGED <<file, seen, saved>>
                       ELSE /\ seen' = seen \cup UNION { keys_to_add(r.url) : r \in Range(rel) }
                            /\ file' = save_seen(seen')
                            /\ saved' = TRUE
                            /\ pc' = "done"
                            /\ UNCHANGED unsent
    /\ UNCHANGED <<cfg, hits, down, runNo, loaded, listing, idx, launched,
                   enriched, committed, funVars>>

Next == RunStart \/ EnrichItem \/ Deliver

Spec == Init /\ [][Next]_vars

\* run() is stopped after send_email has returned: by KeyboardInterrupt
\* (caught in __main__, sys.exit(130)) or by the end of the process, before
\* save_seen is called (at = "send"), or inside save_seen once
\* open(STATE_FILE, "w") has emptied the file and json.dump is writing
\* (at = "save"); the file is then empty or partial, or complete when the
\* stop comes after the last write
DeliverStopped(at) ==
    /\ pc = "deliver"
    /\ LET rel == apply_filters(relevant, cfg) IN
       /\ rel # <<>>
       /\ relevant' = rel
       /\ handed' = rel
       /\ \E o \in SendOutcomes(cfg) \ {"raised"} : mail' = o
       /\ IF at = "save"
          THEN /\ seen' = seen \cup UNION { keys_to_add(r.url) : r \in Range(rel) }
               /\ file' \in {File("corrupt", {}), save_seen(seen')}
          ELSE UNCHANGED <<seen, file>>
    /\ pc' = "aborted"
    /\ saved' = FALSE
    /\ UNCHANGED <<cfg, hits, down, runNo, loaded, listing, idx, launched,
                   enriched, committed, unsent, funVars>>

InterruptedBeforeSave == DeliverStopped("send")

InterruptedInSave == DeliverStopped("save")

NextInterruptible == Next \/ InterruptedBeforeSave \/ InterruptedInSave

SpecInterruptible == Init /\ [][NextInterruptible]_vars

-----------------------------------------------------------------------------
(* The functions studied on their own: run() stands still                  *)

RunIdle ==
    /\ file = File("missing", {})
    /\ cfg = [phrases |-> TRUE, day |-> FALSE, orgao_keywords |-> {},
              enrich |-> TRUE, mail_ok |-> TRUE]
    /\ hits = [q \in Queries |-> {}]
    /\ down = [u \in URLs |-> "?"]
    /\ pc = "idle"
    /\ runNo = 0
    /\ seen = {}
    /\ loaded = {}
    /\ listing = <<>>
    /\ idx = 1
    /\ launched = FALSE
    /\ enriched = <<>>
    /\ relevant = <<>>
    /\ handed = <<>>
    /\ mail = "none"
    /\ saved = FALSE
    /\ committed = FALSE
    /\ unsent = [run |-> 0, docs |-> <<>>]

-----------------------------------------------------------------------------
(* extract_materia_id / build_seen_keys on URLs of many shapes             *)

MaxExtraDigits == 1

\* what precedes the last path segment
IdPrefixes ==
    { <<"/">>,
      WebDou,
      WebDou \o <<"x", "/">>,
      Materia \o <<"asset", "/", "id", "/">>,
      <<"/", "-", "a", "/">>,
      <<"/", "-", "a", "/", "b", "/">>,
      <<"/", "-", "a", "/", "/">>,
      <<"/", "a", "-", "b", "/">>,
      <<"/", "-">> }

DigitRuns ==
    UNION { [1..n -> {"1", "2"}] :
              n \in (MinIdDigits - 1)..(MinIdDigits + MaxExtraDigits) }

IdUrls ==
    { Host \o p \o d \o t : p \in IdPrefixes, d \in DigitRuns, t \in {<<>>, <<"/">>} }

InitId ==
    /\ RunIdle
    /\ inp \in IdUrls
    /\ out = <<>>
    /\ fpc = "ready"

\* main.py build_seen_keys (utils/url.py extract_materia_id and
\* models/publication.py extract_id hold the same pattern)
BuildSeenKeys ==
    /\ fpc = "ready"
    /\ out' = build_seen_keys(inp)
    /\ fpc' = "build_seen_keys"
    /\ UNCHANGED <<inp, runVars>>

NextId == BuildSeenKeys

SpecId == InitId /\ [][NextId]_vars

\* the last path segment of a URL, a trailing slash set aside
NoTrailingSlash(u) ==
    IF u # <<>> /\ u[Len(u)] = "/" THEN SubSeq(u, 1, Len(u) - 1) ELSE u

LastSegment(u) ==
    LET v == NoTrailingSlash(u)
        slashes == { i \in 1..Len(v) : v[i] = "/" }
        last == IF slashes = {} THEN 0
                ELSE CHOOSE i \in slashes : \A j \in slashes : j <= i
    IN SubSeq(v, last + 1, Len(v))

\* C5 (identity key stability): whenever the last path segment of a document
\* URL is a run of at least 6 digits, the id key is id:<that run>, whatever
\* the segments before it are and with or without a trailing slash.
C5_IdKeyStability ==
    (fpc = "build_seen_keys"
       /\ is_materia_url(inp)
       /\ Len(LastSegment(inp)) >= MinIdDigits
       /\ IsDigits(LastSegment(inp), 1, Len(LastSegment(inp))))
    => out.id_key = IdKey(LastSegment(inp))

-----------------------------------------------------------------------------
(* The three loaders of seen.json                                          *)

KeyUniverse == {UrlKey(M1), IdKey(ID1), M2}

\* the file as json.load sees it; `keys` is what iterating the decoded value
\* yields (the elements of an array, the keys of an object, the characters
\* of a string)
LoadFiles ==
    { File(k, {}) : k \in {"missing", "unreadable", "corrupt", "null", "number"} }
    \cup { File(k, ks) : k \in {"array", "object", "string"}, ks \in SUBSET KeyUniverse }

\* core/state.py StateManager.load
StateManager_load(f) ==
    IF f.kind = "array" THEN f.keys ELSE {}

\* state.py StateManager.load: `json.load(f) or []`, then set(str(x) for x in data)
LegacyStateManager_load(f) ==
    IF f.kind \in {"array", "object", "string"} THEN f.keys ELSE {}

InitLoad ==
    /\ RunIdle
    /\ inp \in LoadFiles
    /\ out = <<>>
    /\ fpc = "ready"

LoadSeen ==
    /\ fpc = "ready"
    /\ out' = load_seen(inp)
    /\ fpc' = "main.load_seen"
    /\ UNCHANGED <<inp, runVars>>

StateManagerLoad ==
    /\ fpc = "ready"
    /\ out' = StateManager_load(inp)
    /\ fpc' = "core.state.load"
    /\ UNCHANGED <<inp, runVars>>

LegacyStateManagerLoad ==
    /\ fpc = "ready"
    /\ out' = LegacyStateManager_load(inp)
    /\ fpc' = "state.load"
    /\ UNCHANGED <<inp, runVars>>

NextLoad == LoadSeen \/ StateManagerLoad \/ LegacyStateManagerLoad

SpecLoad == InitLoad /\ [][NextLoad]_vars

\* C7 (fail-open load): a state file that is unreadable, invalid JSON or not
\* a JSON array loads as the empty SeenSet, with each of the loaders.
C7_FailOpenLoad ==
    (fpc # "ready" /\ inp.kind # "array") => out = {}

-----------------------------------------------------------------------------
(* Properties of run()                                                     *)

UrlsDistinct(s) == \A i, j \in 1..Len(s) : s[i].url = s[j].url => i = j

\* C1 (idempotent dedup): once a run has handed off its digest and saved
\* seen.json, every later run against the same portal, with seen.json left
\* alone in between, hands no document to send_email.
C1_IdempotentDedup == committed => handed = <<>>

\* a second run that found the same listing again and handed off nothing
C1_Witness ==
    /\ committed
    /\ pc = "done"
    /\ listing # <<>>
    /\ handed = <<>>

\* C2 (seen.json is updated only after a successful hand-off): save_seen runs
\* in a run only if the digest of that run was actually sent.
C2_SavedOnlyAfterSend == saved => mail = "sent"

\* C3 (URL-deduplicated candidates): the list query_dou returns never holds
\* two entries with the same URL.
C3_ListingUrlDedup == UrlsDistinct(listing)

\* C4 (deduplicated digest): when the candidates have pairwise distinct URLs,
\* no two documents handed to send_email in one run have the same URL.
C4_DigestDedup == UrlsDistinct(listing) => UrlsDistinct(handed)

HasId(url) == extract_materia_id(url) # NoId

\* C6 (both keys are checked, both are recorded): no document whose url: key
\* or whose id: key was in the loaded SeenSet is kept as new, and after a
\* committed run seen.json holds the url: key of every document handed off
\* and the id: key of every one whose URL yields an id.
C6_BothKeysCheckedAndRecorded ==
    /\ pc \in {"enrich", "deliver"} =>
         \A i \in 1..Len(relevant) :
            /\ UrlKey(relevant[i].url) \notin loaded
            /\ HasId(relevant[i].url) =>
                 IdKey(extract_materia_id(relevant[i].url)) \notin loaded
    /\ (pc = "done" /\ saved) =>
         \A i \in 1..Len(handed) :
            /\ UrlKey(handed[i].url) \in file.keys
            /\ HasId(handed[i].url) =>
                 IdKey(extract_materia_id(handed[i].url)) \in file.keys

\* a committed run that recorded an id: key it had not loaded
C6_Witness ==
    /\ pc = "done"
    /\ saved
    /\ \E i \in 1..Len(handed) :
          /\ HasId(handed[i].url)
          /\ IdKey(extract_materia_id(handed[i].url)) \in file.keys \ loaded
          /\ UrlKey(handed[i].url) \in file.keys \ loaded

\* C8 (append-only SeenSet): when seen.json holds a key array, no step of
\* run() leaves it holding anything but an array with at least those keys.
C8_AppendOnly ==
    [][file.kind = "array" =>
          (file'.kind = "array" /\ file.keys \subseteq file'.keys)]_vars

\* a run that loaded keys and saved them together with new ones
C8_Witness ==
    /\ pc = "done"
    /\ saved
    /\ loaded # {}
    /\ loaded \subseteq file.keys
    /\ file.keys # loaded

-----------------------------------------------------------------------------
(* collect_links_from_listing: the anchors of a results page, filtered     *)

MaxTitleLen == 2
MaxAnchors  == 1

TitleChars == {"a", "A", " "}

Strings(S, n) == UNION { [1..k -> S] : k \in 0..n }

\* looks_like_menu: the text is one of BAD_ANCHOR_TEXTS, or BAD_TEXT_PAT
\* finds one of its words with no line break between the word and the end.
\* "ano" and "portal" stand for a word of the pattern and a text of the list.
MenuWords == {"ano"}

BAD_ANCHOR_TEXTS == {<<"Portal">>}

looks_like_menu(text) ==
    LET t == Strip(text) IN
    /\ t # <<>>
    /\ \/ t \in BAD_ANCHOR_TEXTS
       \/ \E i \in 1..Len(t) :
            /\ LowerChar(t[i]) \in MenuWords
            /\ \A j \in (i + 1)..Len(t) : t[j] # "\n"

\* absolutize: a relative href gets the portal's scheme and host
absolutize(href) ==
    LET h == Strip(href) IN
    IF h = <<>> THEN <<>>
    ELSE IF h[1] \in {"http:", "https:"} THEN h
    ELSE IF Len(h) >= 2 /\ h[1] = "/" /\ h[2] = "/" THEN <<"https:">> \o h
    ELSE IF h[1] = "/" THEN Host \o h
    ELSE Host \o <<"/">> \o h

should_reject_url(url, c) ==
    \E r \in c.reject_url_substrings : Contains(Lower(url), Lower(r))

\* a faulty should_reject_title: the configured entry is not stripped
should_reject_title_unstripped(title, c) ==
    LET t == Strip(title)
        t_norm == Lower(CollapseSpaces(t))
    IN /\ c.reject_title_substrings # <<>>
       /\ t # <<>>
       /\ \E k \in 1..Len(c.reject_title_substrings) :
            LET e == c.reject_title_substrings[k]
                s_norm == Lower(CollapseSpaces(e))
            IN e # <<>> /\ s_norm # <<>> /\ Contains(t_norm, s_norm)

should_reject_title(title, c) ==
    LET t == Strip(title)
        t_norm == Lower(CollapseSpaces(t))
    IN /\ c.reject_title_substrings # <<>>
       /\ t # <<>>
       /\ \E k \in 1..Len(c.reject_title_substrings) :
            LET e == c.reject_title_substrings[k]
                s_norm == Strip(Lower(CollapseSpaces(e)))
            IN e # <<>> /\ s_norm # <<>> /\ Contains(t_norm, s_norm)

title_allowed(title, c) ==
    \/ c.title_keywords = {}
    \/ \E kw \in c.title_keywords : Contains(Upper(title), Upper(kw))

\* accept_url_patterns: each pattern is a literal, so p.search is containment
url_accepted(url, c) ==
    \/ c.accept_url_patterns = {}
    \/ \E pat \in c.accept_url_patterns : Contains(url, pat)

\* a faulty add_candidate: menu-like texts are let through
add_candidate_any_text(links, href, text, c) ==
    LET url == absolutize(href) IN
    IF href = <<>> THEN links
    ELSE IF should_reject_url(url, c) THEN links
    ELSE IF should_reject_title(text, c) THEN links
    ELSE IF ~title_allowed(text, c) THEN links
    ELSE IF ~url_accepted(url, c) THEN links
    ELSE IF \E k \in 1..Len(links) : links[k].url = url THEN links
    ELSE Append(links, Ref(url, text))

\* add_candidate: the links dict is a sequence of items in insertion order,
\* at most one per URL
add_candidate(links, href, text, c) ==
    LET url == absolutize(href) IN
    IF href = <<>> THEN links
    ELSE IF looks_like_menu(text) THEN links
    ELSE IF should_reject_url(url, c) THEN links
    ELSE IF should_reject_title(text, c) THEN links
    ELSE IF ~title_allowed(text, c) THEN links
    ELSE IF ~url_accepted(url, c) THEN links
    ELSE IF \E k \in 1..Len(links) : links[k].url = url THEN links
    ELSE Append(links, Ref(url, text))

RECURSIVE add_candidates(_, _, _)
add_candidates(links, anchors, c) ==
    IF anchors = <<>> THEN links
    ELSE add_candidates(add_candidate(links, Head(anchors).href,
                                      Head(anchors).text, c),
                        Tail(anchors), c)

\* what page.locator(sel) yields for each of the three selectors, in order
ResultSelectors == <<"a.resultado-item-titulo", "a[href*='/web/dou/-/']",
                     "a[href*='/materia/']">>

selector_matches(sel, a) ==
    CASE sel = "a.resultado-item-titulo" -> a.cls
      [] sel = "a[href*='/web/dou/-/']"  -> Contains(a.href, WebDou)
      [] OTHER -> Contains(a.href, <<"/", "materia", "/">>)

locator(page, sel) == SelectSeq(page, LAMBDA a : selector_matches(sel, a))

\* deep_collect_anchors: every anchor of the page, href resolved by the browser
deep_collect_anchors(page) ==
    [i \in 1..Len(page) |-> [page[i] EXCEPT !.href = absolutize(page[i].href)]]

\* a faulty extractor: the deep anchors are always consulted
collect_links_from_listing_all_tiers(page, c, broad) ==
    LET l1 == add_candidates(<<>>, locator(page, ResultSelectors[1]), c)
        l2 == add_candidates(l1, locator(page, ResultSelectors[2]), c)
        l3 == add_candidates(l2, locator(page, ResultSelectors[3]), c)
    IN add_candidates(l3, deep_collect_anchors(page), c)

collect_links_from_listing(page, c, broad) ==
    LET l1 == add_candidates(<<>>, locator(page, ResultSelectors[1]), c)
        l2 == add_candidates(l1, locator(page, ResultSelectors[2]), c)
        l3 == add_candidates(l2, locator(page, ResultSelectors[3]), c)
    IN IF l3 = <<>> /\ broad
       THEN add_candidates(l3, deep_collect_anchors(page), c)
       ELSE l3

\* the anchors a results page may hold
AnchorTexts == Strings(TitleChars, MaxTitleLen) \cup {<<"ano">>}

AnchorHrefs == {WebDou \o <<"a">>, <<"/", "x">>}

Anchors == [href : AnchorHrefs, text : AnchorTexts, cls : BOOLEAN]

ListingPages == Strings(Anchors, MaxAnchors)

\* the filters section of config.yml
RejectEntries == Strings(TitleChars, MaxTitleLen)

UrlFilters ==
    { [reject |-> {}, accept |-> {}],
      [reject |-> {<<"/", "X">>}, accept |-> {WebDou}] }

ListingConfigs ==
    { [reject_title_substrings |-> r, title_keywords |-> k,
       reject_url_substrings |-> u.reject, accept_url_patterns |-> u.accept] :
      r \in {<<>>} \cup { <<e>> : e \in RejectEntries },
      k \in {{}, {<<"a">>}},
      u \in UrlFilters }

InitListing ==
    /\ RunIdle
    /\ inp \in [page : ListingPages, cfg : ListingConfigs]
    /\ out = <<>>
    /\ fpc = "ready"

\* the first page of a query: broad = True
CollectLinks ==
    /\ fpc = "ready"
    /\ out' = collect_links_from_listing(inp.page, inp.cfg, TRUE)
    /\ fpc' = "collect_links"
    /\ UNCHANGED <<inp, runVars>>

\* after a scroll or a "next" click: broad = False
CollectMore ==
    /\ fpc = "ready"
    /\ out' = collect_links_from_listing(inp.page, inp.cfg, FALSE)
    /\ fpc' = "collect_more"
    /\ UNCHANGED <<inp, runVars>>

NextListing == CollectLinks \/ CollectMore

SpecListing == InitListing /\ [][NextListing]_vars

IsBlank(s) == \A i \in 1..Len(s) : IsSpace(s[i])

\* the configured title-reject entries that are not empty or all blanks
\* (should_reject_title skips those)
RejectEntriesOf(c) ==
    { c.reject_title_substrings[k] : k \in 1..Len(c.reject_title_substrings) }
      \ { e \in RejectEntries \cup {<<>>} : IsBlank(e) }

\* C9 (title-reject is a total veto): no item of the extracted list has a
\* title that contains a configured title-reject entry, whichever tier found
\* it and whatever the other filters say.
C9_TitleRejectVeto ==
    fpc \in {"collect_links", "collect_more"} =>
        \A k \in 1..Len(out) :
            \A e \in RejectEntriesOf(inp.cfg) : ~Contains(out[k].titulo, e)

\* an anchor found only by the deep fallback, whose title holds the entry and
\* also matches the keyword allow-list, is vetoed: nothing is extracted
C9_Witness ==
    /\ fpc = "collect_links"
    /\ inp.cfg.title_keywords # {}
    /\ Len(inp.page) = 1
    /\ ~inp.page[1].cls
    /\ ~Contains(inp.page[1].href, WebDou)
    /\ title_allowed(inp.page[1].text, inp.cfg)
    /\ url_accepted(absolutize(inp.page[1].href), inp.cfg)
    /\ \E e \in RejectEntriesOf(inp.cfg) : Contains(inp.page[1].text, e)
    /\ out = <<>>

-----------------------------------------------------------------------------
(* Regular expressions, matched as Python's re does: leftmost, greedy,     *)
(* backtracking                                                            *)

Letters == { UpperLetters[i] : i \in 1..Len(UpperLetters) }
             \cup { LowerLetters[i] : i \in 1..Len(LowerLetters) }

AZ == { UpperLetters[i] : i \in 1..26 }

Spaces == {" ", "\t", "\n"}

\* \w
IsWordChar(c) == c \in Letters \cup Digits \cup {"_", "ordm"}

\* \b between t[p - 1] and t[p]
AtWordBoundary(t, p) ==
    (p > 1 /\ IsWordChar(t[p - 1])) # (p <= Len(t) /\ IsWordChar(t[p]))

\* pattern elements: a word boundary, or lo..hi characters of a class
WordB == [kind |-> "b", cs |-> {}, lo |-> 0, hi |-> 0]

Rep(cs, lo, hi) == [kind |-> "c", cs |-> cs, lo |-> lo, hi |-> hi]

Unbounded == 99

Lit(c)   == Rep({c}, 1, 1)
Star(cs) == Rep(cs, 0, Unbounded)
Plus(cs) == Rep(cs, 1, Unbounded)

RunLen(t, p, cs, hi) ==
    LET ns == { n \in 0..(Len(t) - p + 1) :
                  n <= hi /\ \A q \in p..(p + n - 1) : t[q] \in cs }
    IN CHOOSE n \in ns : \A m \in ns : m <= n

\* the position after the match of pat[k..] that starts at p, 0 if none;
\* TryCounts gives element k its n characters, then n - 1, down to lo
RECURSIVE MatchAt(_, _, _, _), TryCounts(_, _, _, _, _)
MatchAt(t, p, pat, k) ==
    IF k > Len(pat) THEN p
    ELSE IF pat[k].kind = "b"
         THEN IF AtWordBoundary(t, p) THEN MatchAt(t, p, pat, k + 1) ELSE 0
    ELSE TryCounts(t, p, pat, k, RunLen(t, p, pat[k].cs, pat[k].hi))

TryCounts(t, p, pat, k, n) ==
    IF n < pat[k].lo THEN 0
    ELSE LET e == MatchAt(t, p + n, pat, k + 1) IN
         IF e # 0 THEN e ELSE TryCounts(t, p, pat, k, n - 1)

\* `alts` is a pattern with an optional group: the alternatives in the order
\* the engine tries them
RECURSIVE MatchAlts(_, _, _)
MatchAlts(t, p, alts) ==
    IF alts = <<>> THEN 0
    ELSE LET e == MatchAt(t, p, Head(alts), 1) IN
         IF e # 0 THEN e ELSE MatchAlts(t, p, Tail(alts))

\* re.sub(alts, repl, t), scanning from position p
RECURSIVE re_sub(_, _, _, _)
re_sub(alts, repl, t, p) ==
    IF p > Len(t) THEN <<>>
    ELSE LET e == MatchAlts(t, p, alts) IN
         IF e > p THEN repl \o re_sub(alts, repl, t, e)
         ELSE <<t[p]>> \o re_sub(alts, repl, t, p + 1)

-----------------------------------------------------------------------------
(* send_email: grouping of the plain-text digest                           *)

min_reps  == 3
MinKeyLen == 10

_norm_key(s) == Strip(CollapseSpaces(unidecode(Upper(s))))

\* \bN[ºO°\.\s]*\s*[\d\.\-\/]+
NumberToken ==
    << <<WordB, Lit("N"), Star({"ordm", "O", "deg", "."} \cup Spaces),
         Star(Spaces), Plus(Digits \cup {".", "-", "/"})>> >>

DE == <<Lit("D"), Lit("E")>>

\* \bDE\s+\d{1,2}\s+DE\s+[A-Z]+(?:\s+DE\s+\d{4})?\b
LongDate ==
    LET head == <<WordB>> \o DE \o <<Plus(Spaces), Rep(Digits, 1, 2),
                  Plus(Spaces)>> \o DE \o <<Plus(Spaces), Plus(AZ)>>
        year == <<Plus(Spaces)>> \o DE \o <<Plus(Spaces), Rep(Digits, 4, 4)>>
    IN << head \o year \o <<WordB>>, head \o <<WordB>> >>

\* \bDE\s+\d{4}\b
LooseYear == << <<WordB>> \o DE \o <<Plus(Spaces), Rep(Digits, 4, 4), WordB>> >>

\* [–—\-]+
Dashes == << <<Plus({"-"})>> >>

\* build_group_key up to its last line: the title normalized, its act number
\* and date removed
normalized_title(title) ==
    LET t0 == _norm_key(title)
        t1 == re_sub(NumberToken, <<>>, t0, 1)
        t2 == re_sub(LongDate, <<>>, t1, 1)
        t3 == re_sub(LooseYear, <<>>, t2, 1)
        t4 == re_sub(Dashes, <<" ">>, t3, 1)
    IN Strip(CollapseSpaces(t4))

NoGroupKey == <<>>

build_group_key(title) ==
    LET t == normalized_title(title) IN
    IF Len(t) >= MinKeyLen THEN t ELSE NoGroupKey

\* _extract_num: re.search(r"\bN[ºo°\.]?\s*([\d\.]+(?:/\d{4})?)", t, re.I);
\* the match as [from, num, to): where it starts, where group 1 starts, where
\* it ends; <<>> when there is none
NumMark == {"ordm", "o", "O", "deg", "."}

\* (?:/\d{4})? after the digits that end before position e
NumEnd(t, e) ==
    IF e + 4 <= Len(t) /\ t[e] = "/" /\ IsDigits(t, e + 1, e + 4)
    THEN e + 5 ELSE e

\* ([\d\.]+...) from position g, n characters of it digits and dots
NumSpan(t, i, g, n) == IF n >= 1 THEN <<i, g, NumEnd(t, g + n)>> ELSE <<>>

NumFrom(t, i, g) == NumSpan(t, i, g, RunLen(t, g, Digits \cup {"."}, Unbounded))

\* the match that starts at i with o characters of [ºo°\.]?
NumTry(t, i, o) ==
    NumFrom(t, i, i + 1 + o + RunLen(t, i + 1 + o, Spaces, Unbounded))

PreferFirst(m1, m2) == IF m1 # <<>> THEN m1 ELSE m2

NumMatchAt(t, i) ==
    IF ~(t[i] \in {"N", "n"} /\ AtWordBoundary(t, i)) THEN <<>>
    ELSE PreferFirst(IF i + 1 <= Len(t) /\ t[i + 1] \in NumMark
                     THEN NumTry(t, i, 1) ELSE <<>>,
                     NumTry(t, i, 0))

LeftMost(ms) ==
    IF ms = {} THEN <<>> ELSE CHOOSE m \in ms : \A m2 \in ms : m[1] <= m2[1]

NumMatch(t) == LeftMost({ NumMatchAt(t, i) : i \in 1..Len(t) } \ {<<>>})

NumText(t, m) == IF m = <<>> THEN <<>> ELSE Strip(SubSeq(t, m[2], m[3] - 1))

_extract_num(it) == NumText(it.titulo, NumMatch(it.titulo))

DigitSeq == <<"0", "1", "2", "3", "4", "5", "6", "7", "8", "9">>

DigitValue(c) == CHOOSE v \in 0..9 : DigitSeq[v + 1] = c

RECURSIVE ToInt(_)
ToInt(ds) ==
    IF ds = <<>> THEN 0
    ELSE 10 * ToInt(SubSeq(ds, 1, Len(ds) - 1)) + DigitValue(ds[Len(ds)])

\* _num_to_int: -1 stands for None
NoInt == 0 - 1

_num_to_int(num) ==
    LET IsDigit(c) == c \in Digits
        digits == SelectSeq(num, IsDigit)
    IN IF num = <<>> \/ Contains(num, <<"/">>) THEN NoInt
       ELSE IF digits = <<>> THEN NoInt
       ELSE ToInt(digits)

\* _sortk: (n is None, n or 0, titulo), compared as Python compares tuples
NumOrZero(n) == IF n = NoInt THEN 0 ELSE n

\* a faulty _sortk: the title alone
SortkCompare_title_only(na, nb, ta, tb) == StrLess(ta, tb)

SortkCompare(na, nb, ta, tb) ==
    \/ na # NoInt /\ nb = NoInt
    \/ (na = NoInt) = (nb = NoInt) /\ NumOrZero(na) < NumOrZero(nb)
    \/ (na = NoInt) = (nb = NoInt) /\ NumOrZero(na) = NumOrZero(nb)
          /\ StrLess(ta, tb)

SortkLess(a, b) ==
    SortkCompare(_num_to_int(_extract_num(a)), _num_to_int(_extract_num(b)),
                 a.titulo, b.titulo)

\* list.sort(key=_sortk): ascending and stable
RECURSIVE InsertAsc(_, _)
InsertAsc(x, s) ==
    IF s = <<>> THEN <<x>>
    ELSE IF SortkLess(x, s[Len(s)]) 
         THEN InsertAsc(x, SubSeq(s, 1, Len(s) - 1)) \o <<s[Len(s)]>>
    ELSE s \o <<x>>

RECURSIVE SortAsc(_)
SortAsc(s) ==
    IF s = <<>> THEN <<>>
    ELSE InsertAsc(s[Len(s)], SortAsc(SubSeq(s, 1, Len(s) - 1)))

Group(key, members) == [_is_group |-> TRUE, group_key |-> key, items |-> members]

IsGroup(entry) == "_is_group" \in DOMAIN entry

\* a faulty second loop: the emitted keys are not remembered
RECURSIVE emit_entries_every_member(_, _, _, _, _)
emit_entries_every_member(items_in, keys, group_keys, pos, emitted) ==
    IF pos > Len(items_in) THEN <<>>
    ELSE LET key == keys[pos]
             InBucket(i) == keys[i] = key
             idxs == SelectSeq([i \in 1..Len(items_in) |-> i], InBucket)
             group_list == SortAsc([n \in 1..Len(idxs) |-> items_in[idxs[n]]])
         IN IF key # NoGroupKey /\ key \in group_keys
            THEN <<Group(key, group_list)>>
                 \o emit_entries_every_member(items_in, keys, group_keys,
                                              pos + 1, emitted)
            ELSE <<items_in[pos]>>
                 \o emit_entries_every_member(items_in, keys, group_keys,
                                              pos + 1, emitted)

\* the second loop of group_items_for_plain_text_inplace
RECURSIVE emit_entries(_, _, _, _, _)
emit_entries(items_in, keys, group_keys, pos, emitted) ==
    IF pos > Len(items_in) THEN <<>>
    ELSE LET key == keys[pos]
             InBucket(i) == keys[i] = key
             idxs == SelectSeq([i \in 1..Len(items_in) |-> i], InBucket)
             group_list == SortAsc([n \in 1..Len(idxs) |-> items_in[idxs[n]]])
         IN IF key # NoGroupKey /\ key \in group_keys
            THEN IF key \in emitted
                 THEN emit_entries(items_in, keys, group_keys, pos + 1, emitted)
                 ELSE <<Group(key, group_list)>>
                      \o emit_entries(items_in, keys, group_keys, pos + 1,
                                      emitted \cup {key})
            ELSE <<items_in[pos]>>
                 \o emit_entries(items_in, keys, group_keys, pos + 1, emitted)

\* the group key of each item, in the order of the list
RECURSIVE group_keys_of(_)
group_keys_of(items_in) ==
    IF items_in = <<>> THEN <<>>
    ELSE <<build_group_key(Strip(Head(items_in).titulo))>>
         \o group_keys_of(Tail(items_in))

group_items_for_plain_text_inplace(items_in, reps) ==
    LET keys == group_keys_of(items_in)
        bucket(k) == { i \in 1..Len(items_in) : keys[i] = k }
        group_keys == { k \in Range(keys) \ {NoGroupKey} :
                          Cardinality(bucket(k)) >= reps }
    IN emit_entries(items_in, keys, group_keys, 1, {})

\* the titles of the lists under study
MaxGroupItems == 4

GroupTitles ==
    { \* "PORTARIA RFB N. 1"
      <<"P", "O", "R", "T", "A", "R", "I", "A", " ", "R", "F", "B",
        " ", "N", ".", " ", "1">>,
      \* "PORTARIA RFB N. 2"
      <<"P", "O", "R", "T", "A", "R", "I", "A", " ", "R", "F", "B",
        " ", "N", ".", " ", "2">>,
      \* "Portaria  RFB n. 10"
      <<"P", "o", "r", "t", "a", "r", "i", "a", " ", " ", "R", "F",
        "B", " ", "n", ".", " ", "1", "0">>,
      \* "PORTARIA RFB N. 10 DE 2026"
      <<"P", "O", "R", "T", "A", "R", "I", "A", " ", "R", "F", "B",
        " ", "N", ".", " ", "1", "0", " ", "D", "E", " ", "2", "0",
        "2", "6">>,
      \* "PORTARIA RFB N. 1/2026": the number is not a plain integer
      <<"P", "O", "R", "T", "A", "R", "I", "A", " ", "R", "F", "B",
        " ", "N", ".", " ", "1", "/", "2", "0", "2", "6">>,
      \* "PORTARIA RFB No 5", No written N + ordinal mark
      <<"P", "O", "R", "T", "A", "R", "I", "A", " ", "R", "F", "B",
        " ", "N", "ordm", " ", "5">>,
      \* "PORTARIA RFB No 6", likewise
      <<"P", "O", "R", "T", "A", "R", "I", "A", " ", "R", "F", "B",
        " ", "N", "ordm", " ", "6">>,
      \* "DECRETO N. 8"
      <<"D", "E", "C", "R", "E", "T", "O", " ", "N", ".", " ", "8">>,
      \* no title
      <<>> }

DocUrl(i) == Host \o <<"/", DigitSeq[i + 1]>>

InitGroup ==
    /\ RunIdle
    /\ inp \in Strings(GroupTitles, MaxGroupItems)
    /\ out = <<>>
    /\ fpc = "ready"

ItemsOf(titles) == [i \in 1..Len(titles) |-> Ref(DocUrl(i), titles[i])]

\* send_email: items_plain = group_items_for_plain_text_inplace(items, 3)
GroupItems ==
    /\ fpc = "ready"
    /\ out' = group_items_for_plain_text_inplace(ItemsOf(inp), min_reps)
    /\ fpc' = "group_items"
    /\ UNCHANGED <<inp, runVars>>

NextGroup == GroupItems

SpecGroup == InitGroup /\ [][NextGroup]_vars

\* the kind of act a title names: the title with the act number that
\* _extract_num reads taken out, normalized as build_group_key normalizes
ActKind(title) ==
    LET m == NumMatch(title)
        bare == IF m = <<>> THEN title
                ELSE SubSeq(title, 1, m[1] - 1) \o SubSeq(title, m[3], Len(title))
    IN normalized_title(bare)

RECURSIVE ActKinds(_)
ActKinds(titles) ==
    IF titles = <<>> THEN <<>>
    ELSE <<ActKind(Head(titles))>> \o ActKinds(Tail(titles))

GroupedTogether(entries, docs) ==
    \E k \in 1..Len(entries) :
        IsGroup(entries[k]) /\ Range(entries[k].items) = docs

\* C10 (grouping threshold): the documents of one kind, whose titles differ
\* only by act number, date, case and spacing and so share a normalized key
\* (a key of at least 10 characters), come out as one Group iff there are at
\* least 3 of them; when there are exactly 2 they come out as two ungrouped
\* entries.
C10_GroupingThreshold ==
    fpc = "group_items" =>
        LET kinds == ActKinds(inp) IN
        \A i \in 1..Len(inp) :
            LET same == { j \in 1..Len(inp) : kinds[j] = kinds[i] }
                docs == { ItemsOf(inp)[j] : j \in same }
            IN Len(kinds[i]) >= MinKeyLen =>
                 /\ (Cardinality(same) >= min_reps) <=> GroupedTogether(out, docs)
                 /\ Cardinality(same) = 2 => docs \subseteq Range(out)

\* the act number of a group member as an integer, NoInt when it has none
MemberNum(m) == _num_to_int(_extract_num(m))

GroupsOf(entries) == { k \in 1..Len(entries) : IsGroup(entries[k]) }

\* C11 as stated (order within a group): the members of a group are in
\* ascending order of act number when every member has a parseable integer
\* number, and in title order when at least one member has none.
C11_NumberElseTitle ==
    fpc = "group_items" =>
        \A k \in GroupsOf(out) :
            LET ms == out[k].items
                allnum == \A i \in 1..Len(ms) : MemberNum(ms[i]) # NoInt
            IN \A i, j \in 1..Len(ms) :
                 i < j => IF allnum THEN MemberNum(ms[i]) <= MemberNum(ms[j])
                          ELSE ~StrLess(ms[j].titulo, ms[i].titulo)

\* C11 amended (order within a group): the members with a parseable integer
\* number come first, in ascending order of number and in title order among
\* equal numbers; the members without one follow, in title order.
C11_NumberedFirstThenTitle ==
    fpc = "group_items" =>
        \A k \in GroupsOf(out) :
            LET ms == out[k].items IN
            \A i, j \in 1..Len(ms) :
                i < j =>
                    /\ MemberNum(ms[i]) = NoInt => MemberNum(ms[j]) = NoInt
                    /\ MemberNum(ms[j]) # NoInt =>
                          MemberNum(ms[i]) <= MemberNum(ms[j])
                    /\ MemberNum(ms[i]) = MemberNum(ms[j]) =>
                          ~StrLess(ms[j].titulo, ms[i].titulo)

\* a group that holds a numbered member placed before an unnumbered one whose
\* title is the smaller, and two numbered members whose titles are in the
\* other order than their numbers
C11_Witness ==
    /\ fpc = "group_items"
    /\ \E k \in GroupsOf(out) :
          LET ms == out[k].items IN
          /\ \E i, j \in 1..Len(ms) :
                /\ i < j
                /\ MemberNum(ms[i]) # NoInt
                /\ MemberNum(ms[j]) = NoInt
                /\ StrLess(ms[j].titulo, ms[i].titulo)
          /\ \E i, j \in 1..Len(ms) :
                /\ i < j
                /\ MemberNum(ms[i]) # NoInt
                /\ MemberNum(ms[j]) # NoInt
                /\ MemberNum(ms[i]) < MemberNum(ms[j])
                /\ StrLess(ms[j].titulo, ms[i].titulo)

\* ---------------------------------------------------------------------
\* Enrichment of the listing (properties of Spec)

\* the canonical page of an enriched document could not be loaded
LoadFailed(k) == cfg.enrich /\ down[enriched[k].url] = "down"

\* C12: when the load of a document's canonical page fails, the enricher
\* still returns a document for it: non-empty title and URL, today's date,
\* and empty organization, type, number and body; and the document is in the
\* enricher's output, one output per listing item handled so far.
C12_DegradeNotDrop ==
    /\ pc = "enrich" => Len(enriched) = idx - 1
    /\ pc = "deliver" => Len(enriched) = Len(listing)
    /\ \A k \in 1..Len(enriched) :
         LoadFailed(k) =>
           /\ enriched[k].titulo # <<>>
           /\ enriched[k].titulo = OrSemTitulo(listing[k].titulo)
           /\ enriched[k].url # <<>>
           /\ enriched[k].data = NowLocal
           /\ enriched[k].orgao = NoOrg
           /\ enriched[k].tipo = None
           /\ enriched[k].numero = None
           /\ enriched[k].texto_bruto = <<>>

\* the whole listing was enriched and the page of one of its documents
\* failed to load
C12_Witness ==
    /\ pc = "deliver"
    /\ \E k \in 1..Len(enriched) : LoadFailed(k)

\* C13: no exception raised while one document is enriched (canonicalization,
\* page load, reading the page content, parsing) aborts the batch: the run
\* never ends with listing items left to enrich.
C13_EnrichNeverAborts == ~(pc = "aborted" /\ idx <= Len(listing))

\* C15 as stated: the documents handed to the formatter are in descending
\* order of publication date, and documents of the same date are in
\* ascending order of title.
C15_DateDescTitleAsc ==
    \A i \in 1..(Len(handed) - 1) :
       LET a == handed[i]
           b == handed[i + 1]
       IN \/ DateRank(a.data) > DateRank(b.data)
          \/ /\ DateRank(a.data) = DateRank(b.data)
             /\ ~StrLess(b.titulo, a.titulo)

\* C15: the documents handed to the formatter are in descending order of
\* publication date, and documents of the same date are in descending order
\* of title (the whole key is sorted in reverse).
C15_DateDescTitleDesc ==
    \A i \in 1..(Len(handed) - 1) :
       LET a == handed[i]
           b == handed[i + 1]
       IN \/ DateRank(a.data) > DateRank(b.data)
          \/ /\ DateRank(a.data) = DateRank(b.data)
             /\ ~StrLess(a.titulo, b.titulo)

\* two documents of the same date and different titles were handed over, the
\* one listed first having the smaller title
C15_Witness ==
    /\ Len(handed) = 2
    /\ Len(listing) = 2
    /\ handed[1].data = handed[2].data
    /\ handed[1].titulo # handed[2].titulo
    /\ StrLess(listing[1].titulo, listing[2].titulo)

\* C17: a configuration with no search phrases is fatal: the run ends with
\* an error, and no browser was launched, no page fetched and no e-mail sent.
C17_NoPhrasesIsFatal ==
    (runNo > 0 /\ ~cfg.phrases) =>
        /\ pc = "aborted"
        /\ ~launched
        /\ mail = "none"

\* C18: saving the SeenSet replaces the file atomically: whenever the state
\* file changes, stopped run or not, it holds the complete new key set (and
\* otherwise it still holds the complete previous one).
C18_AtomicSave ==
    [][file' # file => file' = save_seen(seen')]_vars

\* C19: when the run is stopped after the digest was handed off, the keys of
\* the documents handed off are in seen.json all the same.
C19_InterruptStillPersists ==
    (pc = "aborted" /\ mail = "sent" /\ handed # <<>> /\ listing # <<>>) =>
        /\ file.kind = "array"
        /\ \A i \in 1..Len(handed) : keys_to_add(handed[i].url) \subseteq file.keys

\* ---------------------------------------------------------------------
\* The organization allow-list as a function (specification SpecOrg)

\* utils/validators.py orgao_contains_keywords
orgao_contains_keywords(orgao, keywords) ==
    IF keywords = {} THEN TRUE
    ELSE IF orgao = <<>> THEN TRUE
    ELSE \E kw \in keywords :
            kw # <<>> /\ Contains(normalize(orgao), normalize(kw))

OrgNames ==
    { NoOrg, <<" ">>, OrgRFB, OrgMEC, <<"S", "A~", "O", " ", "R", "F", "B">> }

OrgKeywords ==
    SUBSET { <<>>, <<" ">>, <<"r", "f", "b">>, <<"S", "a~", "o">>, <<"x">> }

InitOrg ==
    /\ RunIdle
    /\ inp \in [orgao : OrgNames, kws : OrgKeywords]
    /\ out = <<>>
    /\ fpc = "ready"

OrgaoAllowed ==
    /\ fpc = "ready"
    /\ out' = orgao_allowed(inp.orgao, inp.kws)
    /\ fpc' = "orgao_allowed"
    /\ UNCHANGED <<inp, runVars>>

OrgaoContainsKeywords ==
    /\ fpc = "ready"
    /\ out' = orgao_contains_keywords(inp.orgao, inp.kws)
    /\ fpc' = "orgao_contains_keywords"
    /\ UNCHANGED <<inp, runVars>>

NextOrg == OrgaoAllowed \/ OrgaoContainsKeywords

SpecOrg == InitOrg /\ [][NextOrg]_vars

\* the normalized organization contains the normalized keyword
OrgHasKeyword(kw) == Contains(normalize(inp.orgao), normalize(kw))

attempts == 3             \* goto_with_retry(..., attempts=3)
stop_after_attempt == 3   \* @retry(wait=wait_fixed(2), stop=stop_after_attempt(3))

SearchConfigs ==
    [ phrases  : {<<>>, <<"p1">>, <<"p1", "p2">>},      \* search.phrases
      sections : {<<"do1">>, <<"do1", "do2">>} ]        \* search.sections

\* the (phrase, section) pairs in the order of the two loops of query_dou
QueryPairs(c) ==
    [ k \in 1..(Len(c.phrases) * Len(c.sections)) |->
        << c.phrases[((k - 1) \div Len(c.sections)) + 1],
           c.sections[((k - 1) % Len(c.sections)) + 1] >> ]

\* `out` holds the position of query_dou: q, the pair being queried; call,
\* the invocation of goto_with_retry under @retry; attempt, the attempt of
\* its loop; loads[k], the page.goto calls made for pair k; ok, the pairs
\* whose page loaded and whose items were collected
InitQuery ==
    /\ RunIdle
    /\ inp \in SearchConfigs
    /\ out = [q |-> 1, call |-> 1, attempt |-> 1,
              loads |-> [k \in 1..Len(QueryPairs(inp)) |-> 0], ok |-> {}]
    /\ fpc = IF QueryPairs(inp) = <<>> THEN "done" ELSE "goto"

\* the loops of query_dou move on to the next pair, or return the listing
NextPair(o, went) ==
    [o EXCEPT !.q = @ + 1, !.call = 1, !.attempt = 1,
              !.ok = IF went THEN @ \cup {o.q} ELSE @]

\* one page.goto of the loop of goto_with_retry: it succeeds (return True, the
\* items of the pair are collected), or it raises; on the last attempt
\* goto_with_retry returns False and query_dou continues with the next pair
GotoAttempt ==
    /\ fpc = "goto"
    /\ \E went \in BOOLEAN :
         LET o == [out EXCEPT !.loads[out.q] = @ + 1] IN
         IF went \/ out.attempt = attempts
         THEN /\ out' = NextPair(o, went)
              /\ fpc' = IF out.q = Len(QueryPairs(inp)) THEN "done" ELSE "goto"
         ELSE /\ out' = o
              /\ fpc' = "wait"
    /\ UNCHANGED <<runVars, inp>>

\* page.wait_for_timeout(800 * attempt) in the except branch: it returns and
\* the loop goes on, or it raises; the exception leaves goto_with_retry, and
\* @retry calls goto_with_retry again, or after stop_after_attempt calls
\* raises RetryError, which nothing in query_dou or run() catches
WaitBetweenAttempts ==
    /\ fpc = "wait"
    /\ \E raised \in BOOLEAN :
         IF ~raised
         THEN /\ out' = [out EXCEPT !.attempt = @ + 1]
              /\ fpc' = "goto"
         ELSE IF out.call < stop_after_attempt
         THEN /\ out' = [out EXCEPT !.call = @ + 1, !.attempt = 1]
              /\ fpc' = "goto"
         ELSE /\ out' = out
              /\ fpc' = "raised"
    /\ UNCHANGED <<runVars, inp>>

NextQuery == GotoAttempt \/ WaitBetweenAttempts

SpecQuery == InitQuery /\ [][NextQuery]_vars

\* C14: the page load of one (phrase, section) query is attempted at most
\* three times, and when the attempts are used up only that pair is
\* abandoned: query_dou goes on with the other pairs and the run continues.
C14_BoundedRetryPerQuery ==
    /\ \A k \in DOMAIN out.loads : out.loads[k] <= 3
    /\ fpc # "raised"

\* ---------------------------------------------------------------------
\* collect_paginated_results: the pages of one query (specification SpecPages)

MaxPages == 3       \* the largest pagination.max_pages tried
MaxListed == 3      \* the most result pages one query has

\* the candidates collect_links_from_listing may find on one result page
PageContents == {{}, {"u1"}, {"u2"}, {"u3"}, {"u1", "u2"}}

\* the result pages of one query, as the portal serves them: whether the
\* first one shows "Nenhum resultado", the candidates found on each, whether
\* a "next" control is found and clicked on each, and what the scroll probe
\* finds
PagedListings ==
    UNION { [ none : BOOLEAN,
              pages : [1..n -> PageContents],
              next : [1..n -> BOOLEAN],
              more : {{}, {"u4"}},
              max_pages : 1..MaxPages ] : n \in 1..MaxListed }

\* the click on "next" shows the following page; on the last page the
\* control, when there is one, leaves the same results on display
AfterClick(listed, at) == IF at < Len(listed.pages) THEN at + 1 ELSE at

\* a faulty loop condition: one page too many
loop_continues_once_more(page_idx, max_pages) == page_idx <= max_pages

\* main.py collect_paginated_results: while page_idx < max_pages
loop_continues(page_idx, max_pages) == page_idx < max_pages

\* `out` holds the locals: page_idx, seen_urls, added, and the display: `at`,
\* the result page shown, and `scrolled`, whether it was scrolled to its
\* end; `read` are the pages candidates were extracted from, `collected`
\* counts the extractions at the head of the loop, `clicks` the clicks on
\* "next"
InitPages ==
    /\ RunIdle
    /\ inp \in PagedListings
    /\ out = [page_idx |-> 0, at |-> 1, seen_urls |-> {}, added |-> 0,
              scrolled |-> FALSE, read |-> {}, collected |-> 0, clicks |-> 0]
    /\ fpc \in {"main.start", "scraper.start", "module.start"}

\* the query page has loaded: main.py query_dou waits for the results and
\* calls collect_paginated_results; scraper/dou_scraper.py
\* _search_phrase_section returns [] when _has_no_results; scraper.py
\* _search_phrase_section calls _collect_paginated_results, where page_idx
\* starts at 1
SearchPhraseSection ==
    /\ fpc \in {"main.start", "scraper.start", "module.start"}
    /\ CASE fpc = "main.start" ->
              /\ out' = out
              /\ fpc' = IF loop_continues(0, inp.max_pages)
                        THEN "main.paging" ELSE "done"
         [] fpc = "scraper.start" ->
              /\ out' = out
              /\ fpc' = IF inp.none THEN "done" ELSE "scraper.paging"
         [] OTHER ->
              /\ out' = [out EXCEPT !.page_idx = 1]
              /\ fpc' = "module.paging"
    /\ UNCHANGED <<inp, runVars>>

\* the locals after the candidates of the page on display were extracted
Extracted(o, items) ==
    [o EXCEPT !.seen_urls = @ \cup items,
              !.added = Cardinality(items \ o.seen_urls),
              !.read = @ \cup {o.at},
              !.collected = @ + 1]

\* the locals after a click on "next"
Clicked(o) ==
    [o EXCEPT !.page_idx = @ + 1, !.at = AfterClick(inp, o.at),
              !.clicks = @ + 1, !.scrolled = FALSE]

\* one iteration of the while loop of main.py collect_paginated_results
PageIteration ==
    /\ fpc = "main.paging"
    /\ LET items == inp.pages[out.at] IN
       IF items = {}
       THEN /\ out' = [out EXCEPT !.read = @ \cup {out.at}, !.collected = @ + 1]
            /\ fpc' = "done"
       ELSE IF inp.next[out.at]
       THEN /\ out' = Clicked(Extracted(out, items))
            /\ fpc' = IF loop_continues(out.page_idx + 1, inp.max_pages)
                      THEN "main.paging" ELSE "done"
       ELSE /\ out' = [Extracted(out, items) EXCEPT
                          !.seen_urls = @ \cup inp.more, !.scrolled = TRUE]
            /\ fpc' = "done"
    /\ UNCHANGED <<inp, runVars>>

\* one iteration of the while loop of scraper/dou_scraper.py
\* _collect_paginated_results, with _go_to_next_page: a click on "next", or
\* else a scroll, after which any result on the page counts as an advance
ScraperPageIteration ==
    /\ fpc = "scraper.paging"
    /\ LET shown == IF out.scrolled THEN inp.more ELSE {}
           o == Extracted(out, inp.pages[out.at] \cup shown)
           again == IF out.page_idx + 1 < inp.max_pages
                    THEN "scraper.paging" ELSE "done"
       IN IF inp.next[out.at]
          THEN /\ out' = Clicked(o)
               /\ fpc' = again
          ELSE IF inp.pages[out.at] \cup inp.more # {}
          THEN /\ out' = [o EXCEPT !.page_idx = @ + 1, !.scrolled = TRUE]
               /\ fpc' = again
          ELSE /\ out' = [o EXCEPT !.scrolled = TRUE]
               /\ fpc' = "done"
    /\ UNCHANGED <<inp, runVars>>

\* one iteration of the `while True` loop of scraper.py
\* _collect_paginated_results: extract, click "next" (page_idx += 1) or
\* else scroll, and stop when nothing was clicked or page_idx >= max_pages
ModulePageIteration ==
    /\ fpc = "module.paging"
    /\ LET o == Extracted(out, inp.pages[out.at]) IN
       IF inp.next[out.at]
       THEN /\ out' = Clicked(o)
            /\ fpc' = IF out.page_idx + 1 >= inp.max_pages
                      THEN "done" ELSE "module.paging"
       ELSE /\ out' = [o EXCEPT !.scrolled = TRUE]
            /\ fpc' = "done"
    /\ UNCHANGED <<inp, runVars>>

NextPages ==
    \/ SearchPhraseSection
    \/ PageIteration
    \/ ScraperPageIteration
    \/ ModulePageIteration

SpecPages == InitPages /\ [][NextPages]_vars

\* C20: pagination stops as soon as a result page yields no candidate that
\* was not already collected for the query: the loop starts another
\* iteration only after a page that added something.
C20_StopOnStalePage ==
    (fpc \in {"main.paging", "scraper.paging", "module.paging"}
       /\ out.collected > 0) =>
        out.added > 0

\* collect_paginated_results under weak fairness: the loop, once entered,
\* keeps running (nothing in it waits without a time-out)
SpecPagesFair == SpecPages /\ WF_vars(NextPages)

\* C21: pagination is bounded: whatever the next control and the scroll
\* probe do, the paginator ends, and it extracts candidates from at most
\* max_pages result pages.
C21_BoundedPagination ==
    /\ [](/\ out.collected <= inp.max_pages
          /\ Cardinality(out.read) <= inp.max_pages)
    /\ <>[](fpc = "done")

\* the paginator ended after extracting from max_pages pages, a "next"
\* control still on display
C21_Witness ==
    /\ fpc = "done"
    /\ out.collected = inp.max_pages
    /\ inp.max_pages > 1
    /\ inp.next[out.at]

\* every result page has a next control and candidates no earlier page had
AllPagesNew ==
    /\ ~inp.none
    /\ Len(inp.pages) >= inp.max_pages
    /\ \A k \in 1..Len(inp.pages) :
          /\ inp.next[k]
          /\ \E u \in inp.pages[k] : \A j \in 1..(k - 1) : u \notin inp.pages[j]

\* C22: when every result page has a clickable next control and yields new
\* candidates, the paginator collects from exactly the pages 1..max_pages.
C22_ReachesConfiguredDepth ==
    (fpc = "done" /\ AllPagesNew) => out.read = 1..inp.max_pages

\* C23: when the first results page signals "no results", nothing is
\* collected from it, and neither a click on "next" nor a scroll probe is
\* attempted.
C23_NoResultsShortCircuit ==
    inp.none => (out.seen_urls = {} /\ out.clicks = 0 /\ ~out.scrolled)

\* ---------------------------------------------------------------------
\* The tiers of the listing extractor (specification SpecTiers)

\* scraper.py _looks_like_menu: the normalized text contains an entry of
\* BAD_ANCHORS ("portal" stands for the list)
BAD_ANCHORS == {<<"portal">>}

_looks_like_menu(text) == \E b \in BAD_ANCHORS : Contains(normalize(text), b)

\* scraper.py consider: only document URLs, no menu text; the dict keeps the
\* position of a key that is assigned again
consider(links, href, text) ==
    LET url == absolutize(href)
        t   == Strip(text)
    IN IF href = <<>> THEN links
       ELSE IF ~Contains(url, WebDou) /\ ~Contains(url, Materia) THEN links
       ELSE IF _looks_like_menu(t) THEN links
       ELSE IF \E k \in 1..Len(links) : links[k].url = url
       THEN [k \in 1..Len(links) |->
                IF links[k].url = url THEN Ref(url, OrSemTitulo(t)) ELSE links[k]]
       ELSE Append(links, Ref(url, OrSemTitulo(t)))

RECURSIVE consider_all(_, _)
consider_all(links, anchors) ==
    IF anchors = <<>> THEN links
    ELSE consider_all(consider(links, Head(anchors).href, Head(anchors).text),
                      Tail(anchors))

\* the anchors each tier of scraper.py looks at
module_tier(page, k) ==
    CASE k = 1 -> SelectSeq(page, LAMBDA a : a.cls)
      [] k = 2 -> SelectSeq(page, LAMBDA a : Contains(a.href, WebDou)
                                              \/ Contains(a.href, Materia))
      [] OTHER -> page

\* scraper.py _collect_links_from_listing
_collect_links_from_listing(page) ==
    LET l1 == consider_all(<<>>, module_tier(page, 1))
        l2 == IF l1 = <<>> THEN consider_all(l1, module_tier(page, 2)) ELSE l1
    IN IF l2 = <<>> THEN consider_all(l2, module_tier(page, 3)) ELSE l2

MaxTierAnchors == 3

TierAnchors ==
    { [href |-> WebDou \o <<"a">>, text |-> <<"a">>, cls |-> TRUE],
      [href |-> WebDou \o <<"b">>, text |-> <<"a">>, cls |-> FALSE],
      [href |-> <<"/", "x">>, text |-> <<"a">>, cls |-> FALSE],
      [href |-> <<"/", "x">>, text |-> <<"A">>, cls |-> TRUE],
      [href |-> Materia \o <<"c">>, text |-> <<"ano">>, cls |-> FALSE],
      [href |-> Materia \o <<"d">>, text |-> <<"portal">>, cls |-> TRUE] }

InitTiers ==
    /\ RunIdle
    /\ inp \in [ page : Strings(TierAnchors, MaxTierAnchors),
                 cfg : { c \in ListingConfigs :
                           c.reject_title_substrings = <<>> /\ c.title_keywords = {} } ]
    /\ out = <<>>
    /\ fpc = "ready"

ModuleCollectLinks ==
    /\ fpc = "ready"
    /\ out' = _collect_links_from_listing(inp.page)
    /\ fpc' = "module.collect_links"
    /\ UNCHANGED <<inp, runVars>>

NextTiers == CollectLinks \/ CollectMore \/ ModuleCollectLinks

SpecTiers == InitTiers /\ [][NextTiers]_vars

\* the anchors the selector tier of main.py looks at
SelectorAnchors ==
    { i \in 1..Len(inp.page) :
        \E k \in 1..Len(ResultSelectors) :
            selector_matches(ResultSelectors[k], inp.page[i]) }

\* the positions of the anchors that tier k of scraper.py looks at
ModuleTierAnchors(k) ==
    { i \in 1..Len(inp.page) :
        \E j \in 1..Len(module_tier(inp.page, k)) :
            module_tier(inp.page, k)[j] = inp.page[i] }

\* anchor i, taken alone, is accepted
Accepted(i) ==
    add_candidate(<<>>, inp.page[i].href, inp.page[i].text, inp.cfg) # <<>>

ModuleAccepted(i) == consider(<<>>, inp.page[i].href, inp.page[i].text) # <<>>

\* every extracted item comes from an anchor at one of the positions S
OnlyFrom(S) ==
    \A k \in 1..Len(out) :
        \E i \in S : out[k].url = absolutize(inp.page[i].href)

\* C24: the tiers are tried in order and the first one that yields an
\* accepted candidate wins: then the output holds only candidates of that
\* tier, and the deep anchors are consulted only when the earlier tiers
\* (in main.py: the selectors; in scraper.py: the title selector, then the
\* document-link selector) accepted nothing.
C24_FirstTierWins ==
    /\ fpc \in {"collect_links", "collect_more"} =>
         /\ (\E i \in SelectorAnchors : Accepted(i)) => OnlyFrom(SelectorAnchors)
         /\ (fpc = "collect_more" /\ ~\E i \in SelectorAnchors : Accepted(i)) =>
                out = <<>>
    /\ fpc = "module.collect_links" =>
         /\ (\E i \in ModuleTierAnchors(1) : ModuleAccepted(i)) =>
                OnlyFrom(ModuleTierAnchors(1))
         /\ (\E i \in ModuleTierAnchors(2) : ModuleAccepted(i)) =>
                OnlyFrom(ModuleTierAnchors(2))

\* a page with an accepted selector anchor and an acceptable anchor that only
\* the deep tier would find, which is left out
C24_Witness ==
    /\ fpc = "collect_links"
    /\ \E i \in SelectorAnchors : Accepted(i)
    /\ \E i \in (1..Len(inp.page)) \ SelectorAnchors :
          /\ Accepted(i)
          /\ \A k \in 1..Len(out) : out[k].url # absolutize(inp.page[i].href)

\* C25: every candidate collect_links_from_listing returns, from a selector
\* or from the deep anchors, passes all the acceptance rules: its text is
\* not menu-like, its URL holds no reject substring, its title is not on
\* the title blacklist, its title matches the keyword allow-list when there
\* is one, and its URL matches an accept pattern when there is one.
C25_NoiseFilterOnEveryTier ==
    fpc \in {"collect_links", "collect_more"} =>
        \A k \in 1..Len(out) :
            /\ ~looks_like_menu(out[k].titulo)
            /\ ~should_reject_url(out[k].url, inp.cfg)
            /\ ~should_reject_title(out[k].titulo, inp.cfg)
            /\ inp.cfg.title_keywords # {} =>
                 \E kw \in inp.cfg.title_keywords :
                     Contains(Upper(out[k].titulo), Upper(kw))
            /\ inp.cfg.accept_url_patterns # {} =>
                 \E pat \in inp.cfg.accept_url_patterns :
                     Contains(out[k].url, pat)

\* a candidate that only the deep anchors found, accepted under a
\* configuration with a keyword allow-list and a title blacklist
C25_Witness ==
    /\ fpc = "collect_links"
    /\ out # <<>>
    /\ \A i \in 1..Len(inp.page) :
          \A k \in 1..Len(ResultSelectors) :
              ~selector_matches(ResultSelectors[k], inp.page[i])
    /\ inp.cfg.title_keywords # {}
    /\ RejectEntriesOf(inp.cfg) # {}

\* a run of the pipeline over a non-empty listing has reached its filters
Filtered == listing # <<>> /\ idx > Len(listing) /\ pc \in {"done", "aborted"}

\* document k of the run was new and passes the organization filter
PassesOtherFilters(k) ==
    /\ ~already_seen(loaded, enriched[k].url)
    /\ cfg.orgao_keywords # {} =>
         orgao_allowed(enriched[k].orgao, cfg.orgao_keywords)

HeldBy(entry) ==
    { i \in 1..Len(inp) :
        IF IsGroup(entry)
        THEN \E n \in 1..Len(entry.items) : entry.items[n] = ItemsOf(inp)[i]
        ELSE entry = ItemsOf(inp)[i] }

\* the input position of the first document an output entry holds
FirstHeld(entry) ==
    CHOOSE i \in HeldBy(entry) : \A j \in HeldBy(entry) : i <= j

\* C27: grouping is a partition that keeps positions. Every input document
\* appears exactly once in the output, as an entry of its own or as a member
\* of exactly one group; an entry holds nothing but input documents; and the
\* entries are in the order of their first documents, so a group stands
\* where its first member stood and the ungrouped entries keep their order.
C27_GroupingIsPartition ==
    fpc = "group_items" =>
        /\ \A i \in 1..Len(inp) :
              /\ Cardinality({ k \in 1..Len(out) : i \in HeldBy(out[k]) }) = 1
              /\ \A k \in 1..Len(out) :
                    IsGroup(out[k]) =>
                        Cardinality({ n \in 1..Len(out[k].items) :
                                        out[k].items[n] = ItemsOf(inp)[i] }) <= 1
        /\ \A k \in 1..Len(out) :
              /\ HeldBy(out[k]) # {}
              /\ IsGroup(out[k]) => Len(out[k].items) = Cardinality(HeldBy(out[k]))
        /\ \A k, l \in 1..Len(out) :
              k < l => FirstHeld(out[k]) < FirstHeld(out[l])

\* a group whose members stand around an ungrouped document: the group comes
\* out before it, at the place of its first member
C27_Witness ==
    /\ fpc = "group_items"
    /\ \E k, l \in 1..Len(out) :
          /\ k < l
          /\ IsGroup(out[k])
          /\ ~IsGroup(out[l])
          /\ \E j \in HeldBy(out[k]) : FirstHeld(out[l]) < j

\* the documents of the run that were actually handed off (sent)
HandedOff == IF mail = "sent" THEN Range(handed) ELSE {}

\* document k of the run was new and was dropped by a filter
DroppedByFilter(k) ==
    /\ Filtered
    /\ ~already_seen(loaded, enriched[k].url)
    /\ \A j \in 1..Len(handed) : handed[j] # enriched[k]

\* C28: after a run, seen.json holds the set loaded at the start plus exactly
\* the keys of the documents handed off in the run; a document dropped by
\* the edition-date or organization filter has no key there, so the next run
\* finds it new again.
C28_OnlyHandedOffRecorded ==
    (listing # <<>> /\ pc \in {"done", "aborted"}) =>
        /\ load_seen(file) = loaded \cup UNION { keys_to_add(r.url) : r \in HandedOff }
        /\ \A k \in 1..Len(enriched) :
              DroppedByFilter(k) => ~already_seen(load_seen(file), enriched[k].url)

\* what does hold: the keys written are those of the documents passed to
\* send_email when it returned, sent or not
C28_OnlyPassedOnRecorded ==
    (listing # <<>> /\ pc \in {"done", "aborted"}) =>
        /\ load_seen(file) = loaded \cup
              UNION { keys_to_add(r.url) :
                        r \in IF mail = "raised" THEN {} ELSE Range(handed) }

\* C29: when send_email raises, no key is added and seen.json is not
\* written, and the next run, against the same portal, offers the same
\* documents to send_email again.
C29_SendFailureKeepsState ==
    /\ [][(pc = "deliver" /\ mail' = "raised") =>
             (file' = file /\ seen' = seen /\ ~saved')]_vars
    /\ [][(pc = "deliver" /\ pc' # "deliver"
             /\ unsent.run > 0 /\ unsent.run = runNo - 1) =>
             Range(handed') = Range(unsent.docs)]_vars

\* a run whose hand-off raised, followed by a run that sends the same
\* documents
C29_Witness ==
    /\ unsent.run = 1
    /\ runNo = 2
    /\ pc = "done"
    /\ mail = "sent"
    /\ unsent.docs # <<>>
    /\ Range(handed) = Range(unsent.docs)

\* ---------------------------------------------------------------------
\* The window of a run: query URL and edition-date filter (specification
\* SpecWindow). A period is the sequence of its characters.

\* the words run() and query_dou take for the edition of the day
DayWords ==
    { <<"t", "o", "d", "a", "y">>,
      <<"d", "a", "y">>,
      <<"d", "i", "a">>,
      <<"h", "o", "j", "e">>,
      <<"e", "d", "i", "c", "a", "o">>,
      <<"e", "d", "i", "ç", "ã", "o">> }

WeekWords ==
    { <<"w", "e", "e", "k">>,
      <<"s", "e", "m", "a", "n", "a">> }

MonthWords ==
    { <<"m", "o", "n", "t", "h">>,
      <<"m", "e", "s">>,
      <<"m", "ê", "s">> }

AnyWords ==
    { <<"a", "n", "y">>,
      <<"a", "l", "l">>,
      <<"q", "u", "a", "l", "q", "u", "e", "r">>,
      <<"q", "u", "a", "l", "q", "u", "e", "r", " ", "p", "e", "r", "i", "o", "d", "o">>,
      <<"q", "u", "a", "l", "q", "u", "e", "r", " ", "p", "e", "r", "í", "o", "d", "o">> }

\* build_direct_query_url: exact = period_map.get(period, "dia")
period_map_get(period) ==
    CASE period \in DayWords -> "dia"
      [] period \in WeekWords -> "semana"
      [] period \in MonthWords -> "mes"
      [] period \in AnyWords -> "all"
      [] OTHER -> "dia"

\* a setting that may be missing (os.getenv or dict.get returning None)
Unset == [set |-> FALSE, value |-> <<>>]

Given(p) == [set |-> TRUE, value |-> p]

\* query_dou: PERIOD_OVERRIDE when set and not empty, else search.period,
\* else "today"; stripped and lower-cased
period_effective(override, configured) ==
    LET raw == IF override.set /\ override.value # <<>> THEN override.value
               ELSE IF configured.set THEN configured.value
               ELSE <<"t", "o", "d", "a", "y">>
    IN Lower(Strip(raw))

\* run(): the edition-date filter is applied for the day words only
day_filter_applies(period_eff) == period_eff \in DayWords

\* the period strings under study: the words of the map, as written and with
\* other case or padding, and strings the map does not know
PeriodStrings ==
    DayWords \cup WeekWords \cup MonthWords \cup AnyWords \cup
    { <<"T", "o", "d", "a", "y">>,
      <<" ", "h", "o", "j", "e", " ">>,
      <<"W", "E", "E", "K">>,
      <<"M", "e", "s", " ">>,
      <<" ", "a", "n", "y">>,
      <<"y", "e", "s", "t", "e", "r", "d", "a", "y">>,
      <<"7", "d">>,
      <<"o", "n", "t", "e", "m">>,
      <<" ">>,
      <<>> }

InitWindow ==
    /\ RunIdle
    /\ inp \in [ period : {Unset} \cup { Given(p) : p \in PeriodStrings },
                 PERIOD_OVERRIDE : {Unset} \cup { Given(p) : p \in PeriodStrings } ]
    /\ out = <<>>
    /\ fpc = "ready"

\* one run: query_dou fixes the period and builds the query URLs with it,
\* run() then decides on the filter from period_effective
RunWindow ==
    /\ fpc = "ready"
    /\ LET p == period_effective(inp.PERIOD_OVERRIDE, inp.period) IN
       out' = [ period_effective |-> p,
                exactDate |-> period_map_get(p),
                day_filter |-> day_filter_applies(p) ]
    /\ fpc' = "run"
    /\ UNCHANGED <<inp, runVars>>

NextWindow == RunWindow

SpecWindow == InitWindow /\ [][NextWindow]_vars

\* the period is one the code knows
Recognised(p) == p \in DayWords \cup WeekWords \cup MonthWords \cup AnyWords

\* C30: for every period string, recognised or not, the edition-date filter
\* is applied in run() exactly when the query URL asks for the day-exact
\* window (exactDate=dia).
C30_WindowConsistency ==
    fpc = "run" => (out.day_filter <=> out.exactDate = "dia")

\* what does hold: query and filter agree for every period the code knows
C30_RecognisedWindowConsistency ==
    (fpc = "run" /\ Recognised(out.period_effective)) =>
        (out.day_filter <=> out.exactDate = "dia")

====
